---------------------------- MODULE Spec2Model ----------------------------
(***************************************************************************)
(* Model of src/remote/lambda.py: the help-request e-mail relay.           *)
(*                                                                         *)
(* One invocation of lambda_handler is a sequential pipeline               *)
(*   decode (get_payload) -> get_config_from_env -> make_message           *)
(*   -> send_message (SMTP session) -> response.                           *)
(* Several invocations may be in flight at once (separate execution        *)
(* environments); each one owns its locals.  Text is modelled as a         *)
(* sequence of tokens: a token is a run of ordinary characters, a brace,   *)
(* or a word that may serve as a replacement-field name.                   *)
(***************************************************************************)
EXTENDS Integers, Sequences, FiniteSets, TLC

VARIABLES
    env,       \* os.environ, with the ciphertexts it holds
    pc,        \* position of each invocation in lambda_handler
    event,     \* the event each invocation was called with
    payload,   \* local `payload` of lambda_handler
    config,    \* local `config` of lambda_handler
    message,   \* local `message` of lambda_handler
    conn,      \* the socket behind `server` in send_message
    log,       \* SMTP calls attempted by the invocation, with their outcome
    stages,    \* pipeline stages the invocation has entered, in order
    exc,       \* exception in flight (or propagated out of the handler)
    response   \* value returned by lambda_handler

vars == <<env, pc, event, payload, config, message, conn, log, stages, exc, response>>

----------------------------------------------------------------------------
(* Bounds *)

\* Total number of tokens over the three payload fields in SpecCompose.
MaxTotalLen == 5

\* Concurrent execution environments.
Invocations == {"inv1", "inv2"}

None == [none |-> TRUE]
NoExc == "None"

----------------------------------------------------------------------------
(* Text and templates *)

Lit0 == "\nHello!\n\nA user has submitted a help request from the Montreal Policy Simulator.\n\nThanks,\nHelpBot\n\n\nUser email: "
Lit1 == "\n\nDescription of issue:\n"
Lit2 == "\n\n----------------------------------------\nSimulation code:\n----------------------------------------\n"
Lit3 == "\n----------------------------------------\n"

BODY_TEMPLATE ==
    << Lit0, "{", "email", "}", Lit1, "{", "description", "}",
       Lit2, "{", "simulation", "}", Lit3 >>

FmtOk(out) == [err |-> NoExc, out |-> out]
FmtErr(e) == [err |-> e, out |-> <<>>]
FmtCons(head, rest) == IF rest.err = NoExc THEN FmtOk(head \o rest.out) ELSE rest

\* str.format(**kwargs): one left-to-right scan of the format string.  "{{" and
\* "}}" are escapes, "{name}" is replaced by kwargs[name]; the replacement text
\* is copied to the output and never scanned.
RECURSIVE FormatFrom(_, _, _)
FormatFrom(tpl, k, kwargs) ==
    IF k > Len(tpl) THEN FmtOk(<<>>)
    ELSE IF tpl[k] = "{" THEN
        IF k + 1 > Len(tpl) THEN FmtErr("ValueError")
        ELSE IF tpl[k + 1] = "{" THEN FmtCons(<<"{">>, FormatFrom(tpl, k + 2, kwargs))
        ELSE IF tpl[k + 1] = "}" THEN FmtErr("IndexError")
        ELSE IF k + 2 > Len(tpl) \/ tpl[k + 2] # "}" THEN FmtErr("ValueError")
        ELSE IF tpl[k + 1] \notin DOMAIN kwargs THEN FmtErr("KeyError")
        ELSE FmtCons(kwargs[tpl[k + 1]], FormatFrom(tpl, k + 3, kwargs))
    ELSE IF tpl[k] = "}" THEN
        IF k + 1 <= Len(tpl) /\ tpl[k + 1] = "}"
        THEN FmtCons(<<"}">>, FormatFrom(tpl, k + 2, kwargs))
        ELSE FmtErr("ValueError")
    ELSE FmtCons(<<tpl[k]>>, FormatFrom(tpl, k + 1, kwargs))

\* A renderer that scans its own output again: substituted text is re-interpreted.
Format_rescan(tpl, kwargs) ==
    LET once == FormatFrom(tpl, 1, kwargs)
    IN  IF once.err = NoExc THEN FormatFrom(once.out, 1, kwargs) ELSE once

Format(tpl, kwargs) == FormatFrom(tpl, 1, kwargs)

\* json.dumps({'message': text})
JsonDumpsMessage(text) == "{\"message\": \"" \o text \o "\"}"

----------------------------------------------------------------------------
(* Payload *)

Keys == {"email", "description", "simulation"}

Payload(sender, description, simulation) ==
    [email |-> sender, description |-> description, simulation |-> simulation]

\* A decoder that fills in placeholder text for a key that is not there.
get_payload_lenient(data) ==
    IF data.kind # "object" THEN [err |-> "TypeError", val |-> None]
    ELSE [err |-> NoExc,
          val |-> Payload(
              IF "email" \in DOMAIN data.members
                  THEN data.members["email"] ELSE <<"No email provided">>,
              IF "description" \in DOMAIN data.members
                  THEN data.members["description"] ELSE <<"No description provided">>,
              IF "simulation" \in DOMAIN data.members
                  THEN data.members["simulation"] ELSE <<"No simulation provided">>)]

\* get_payload: three subscript reads, the first missing key raises KeyError.
get_payload(data) ==
    IF data.kind # "object" THEN [err |-> "TypeError", val |-> None]
    ELSE IF "email" \notin DOMAIN data.members THEN [err |-> "KeyError", val |-> None]
    ELSE IF "description" \notin DOMAIN data.members THEN [err |-> "KeyError", val |-> None]
    ELSE IF "simulation" \notin DOMAIN data.members THEN [err |-> "KeyError", val |-> None]
    ELSE [err |-> NoExc,
          val |-> Payload(data.members["email"], data.members["description"],
                          data.members["simulation"])]

\* JSON texts a request body may hold: a malformed text, an array, or an object
\* with any subset of the three keys.
FieldValues(key) ==
    IF key = "email" THEN {<<"u@x.com">>, <<"{", "email", "}">>}
    ELSE IF key = "description" THEN {<<"broke">>}
    ELSE {<<"sim123">>}

Objects ==
    UNION { { m \in [S -> UNION {FieldValues(k) : k \in Keys}] :
                \A k \in S : m[k] \in FieldValues(k) } : S \in SUBSET Keys }

JsonObject(members) == [kind |-> "object", members |-> members]
EmptyObjectText == JsonObject([k \in {} |-> <<>>])

JsonTexts ==
    {[kind |-> "malformed", members |-> [k \in {} |-> <<>>]],
     [kind |-> "array", members |-> [k \in {} |-> <<>>]]}
    \cup {JsonObject(m) : m \in Objects}

\* json.loads
JsonLoads(text) ==
    IF text.kind = "malformed" THEN [err |-> "JSONDecodeError", val |-> None]
    ELSE [err |-> NoExc, val |-> text]

Events == {[k \in {} |-> EmptyObjectText]} \cup {[k \in {"body"} |-> t] : t \in JsonTexts}

\* event.get('body', '{}')
EventBody(ev) == IF "body" \in DOMAIN ev THEN ev["body"] ELSE EmptyObjectText

----------------------------------------------------------------------------
(* Environment and decryption *)

SecretNames == {"SMTP_HOST", "SMTP_PORT", "SMTP_USER", "SMTP_PASSWORD", "DESTINATION"}
FunctionNameVar == "AWS_LAMBDA_FUNCTION_NAME"
EnvNames == SecretNames \cup {FunctionNameVar}

ThisFunction == "help-relay"
ServiceKey == "key-relay"

Plain(name) ==
    CASE name = "SMTP_HOST" -> "smtp.example.org"
      [] name = "SMTP_PORT" -> "587"
      [] name = "SMTP_USER" -> "helpbot@example.org"
      [] name = "SMTP_PASSWORD" -> "hunter2"
      [] name = "DESTINATION" -> "support@example.org"

\* An encrypted environment value: base64 text of a ciphertext made under a key
\* and bound to an encryption context.
Blob(b64ok, key, ctx, pt) == [b64ok |-> b64ok, key |-> key, ctx |-> ctx, pt |-> pt]
GoodBlob(name) == Blob(TRUE, ServiceKey, ThisFunction, Plain(name))

FaultyBlobs(name) ==
    {Blob(FALSE, ServiceKey, ThisFunction, Plain(name)),
     Blob(TRUE, "other-key", ThisFunction, Plain(name)),
     Blob(TRUE, ServiceKey, "other-function", Plain(name))}
    \cup (IF name = "SMTP_PORT"
          THEN {Blob(TRUE, ServiceKey, ThisFunction, "smtp")} ELSE {})

GoodEnv == [n \in EnvNames |-> IF n = FunctionNameVar THEN ThisFunction ELSE GoodBlob(n)]

Without(e, name) == [n \in (DOMAIN e) \ {name} |-> e[n]]

\* The deployed environment, or that environment with one variable missing or
\* holding a value that does not decrypt.
Environments ==
    {GoodEnv}
    \cup {Without(GoodEnv, n) : n \in EnvNames}
    \cup UNION {{[GoodEnv EXCEPT ![n] = b] : b \in FaultyBlobs(n)} : n \in SecretNames}

Ok(v) == [err |-> NoExc, val |-> v]
Err(e) == [err |-> e, val |-> None]

\* kms.decrypt(CiphertextBlob=..., EncryptionContext=...)['Plaintext']
KmsDecrypt(blob, context, up) ==
    IF ~up THEN Err("ClientError")
    ELSE IF blob.key # ServiceKey \/ blob.ctx # context THEN Err("ClientError")
    ELSE Ok(blob.pt)

get_env_var_decrypt(e, name, up) ==
    IF name \notin DOMAIN e THEN Err("KeyError")
    ELSE IF ~e[name].b64ok THEN Err("binascii.Error")
    ELSE IF FunctionNameVar \notin DOMAIN e THEN Err("KeyError")
    ELSE KmsDecrypt(e[name], e[FunctionNameVar], up)

\* int(text)
ParseInt(text) ==
    CASE text = "587" -> Ok(587)
      [] text = "25" -> Ok(25)
      [] OTHER -> Err("ValueError")

Config(smtp_host, smtp_port, smtp_user, smtp_pass, destination) ==
    [smtp_host |-> smtp_host, smtp_port |-> smtp_port, smtp_user |-> smtp_user,
     smtp_pass |-> smtp_pass, destination |-> destination]

\* A resolver that takes the recipient from the request instead of the environment.
get_config_from_env_payload(e, p, up) ==
    LET host == get_env_var_decrypt(e, "SMTP_HOST", up)
        port == get_env_var_decrypt(e, "SMTP_PORT", up)
        user == get_env_var_decrypt(e, "SMTP_USER", up)
        pass == get_env_var_decrypt(e, "SMTP_PASSWORD", up)
    IN  IF host.err # NoExc THEN host
        ELSE IF port.err # NoExc THEN port
        ELSE IF ParseInt(port.val).err # NoExc THEN ParseInt(port.val)
        ELSE IF user.err # NoExc THEN user
        ELSE IF pass.err # NoExc THEN pass
        ELSE Ok(Config(host.val, ParseInt(port.val).val, user.val, pass.val, p.email[1]))

\* A resolver that falls back to defaults for a variable it cannot resolve.
get_config_from_env_defaults(e, p, up) ==
    LET val(name) == IF get_env_var_decrypt(e, name, up).err = NoExc
                     THEN get_env_var_decrypt(e, name, up).val ELSE Plain(name)
    IN  Ok(Config(val("SMTP_HOST"),
                  IF ParseInt(val("SMTP_PORT")).err = NoExc
                      THEN ParseInt(val("SMTP_PORT")).val ELSE 587,
                  val("SMTP_USER"), val("SMTP_PASSWORD"), val("DESTINATION")))

\* get_config_from_env, called from an invocation whose payload is p: five
\* decryptions in order, the first failure propagates.  p is not read.
get_config_from_env(e, p, up) ==
    LET host == get_env_var_decrypt(e, "SMTP_HOST", up)
        port == get_env_var_decrypt(e, "SMTP_PORT", up)
        user == get_env_var_decrypt(e, "SMTP_USER", up)
        pass == get_env_var_decrypt(e, "SMTP_PASSWORD", up)
        dest == get_env_var_decrypt(e, "DESTINATION", up)
    IN  IF host.err # NoExc THEN host
        ELSE IF port.err # NoExc THEN port
        ELSE IF ParseInt(port.val).err # NoExc THEN ParseInt(port.val)
        ELSE IF user.err # NoExc THEN user
        ELSE IF pass.err # NoExc THEN pass
        ELSE IF dest.err # NoExc THEN dest
        ELSE Ok(Config(host.val, ParseInt(port.val).val, user.val, pass.val, dest.val))

----------------------------------------------------------------------------
(* Message composition *)

Subject == "MPS Help Request"

MIMEText(body, subtype) == [type |-> "text/" \o subtype, body |-> body]

\* An envelope with sender and recipient exchanged.
Envelope_swapped(c) ==
    [From |-> c.destination, To |-> c.smtp_user, Subject |-> Subject]

\* The three header assignments of make_message.
Envelope(c) ==
    [From |-> c.smtp_user, To |-> c.destination, Subject |-> Subject]

\* make_message: headers, rendered template, one text/plain part.
make_message(p, c) ==
    LET body == Format(BODY_TEMPLATE,
                       [email |-> p.email, description |-> p.description,
                        simulation |-> p.simulation])
    IN  IF body.err # NoExc THEN Err(body.err)
        ELSE Ok([From |-> Envelope(c).From, To |-> Envelope(c).To,
                 Subject |-> Envelope(c).Subject,
                 parts |-> <<MIMEText(body.out, "plain")>>])

----------------------------------------------------------------------------
(* Control flow *)

\* A handler that answers right after composing the message.
HandlerNext_skipSend(stage) ==
    CASE stage = "decode" -> "config"
      [] stage = "config" -> "compose"
      [] stage = "compose" -> "respond"
      [] stage = "send" -> "respond"

\* lambda_handler: the statement that follows each stage when it returns.
HandlerNext(stage) ==
    CASE stage = "decode" -> "config"
      [] stage = "config" -> "compose"
      [] stage = "compose" -> "connect"
      [] stage = "send" -> "respond"

\* A session that authenticates on the plaintext connection.
SmtpNext_loginFirst(step) ==
    CASE step = "connect" -> "login"
      [] step = "login" -> "starttls"
      [] step = "starttls" -> "transmit"
      [] step = "transmit" -> "exit"

\* send_message: the statement that follows each SMTP call when it returns.
SmtpNext(step) ==
    CASE step = "connect" -> "starttls"
      [] step = "starttls" -> "login"
      [] step = "login" -> "transmit"
      [] step = "transmit" -> "exit"

\* A session closed by a call at the end of the block: skipped when the block raises.
ReleaseOnExit_onlyOnSuccess(pending) == IF pending = NoExc THEN "closed" ELSE "open"

\* The `with` statement: __exit__ closes the socket whether or not the block raised.
ReleaseOnExit(pending) == "closed"

\* json.dumps with compact separators.
ResponseBody_compact(text) == "{\"message\":\"" \o text \o "\"}"

\* The body of the returned response.
ResponseBody(text) == JsonDumpsMessage(text)

SuccessResponse ==
    [statusCode |-> 200,
     headers |-> ("Content-Type" :> "application/json")
                 @@ ("Access-Control-Allow-Origin" :> "*"),
     body |-> ResponseBody("Success")]

Call(op, ok) == [op |-> op, ok |-> ok]

Raise(i, e) ==
    /\ pc' = [pc EXCEPT ![i] = "raised"]
    /\ exc' = [exc EXCEPT ![i] = e]

----------------------------------------------------------------------------
(* Initial state *)

Init ==
    /\ env \in Environments
    /\ pc = [i \in Invocations |-> "idle"]
    /\ event = [i \in Invocations |-> None]
    /\ payload = [i \in Invocations |-> None]
    /\ config = [i \in Invocations |-> None]
    /\ message = [i \in Invocations |-> None]
    /\ conn = [i \in Invocations |-> "none"]
    /\ log = [i \in Invocations |-> <<>>]
    /\ stages = [i \in Invocations |-> <<>>]
    /\ exc = [i \in Invocations |-> NoExc]
    /\ response = [i \in Invocations |-> None]

----------------------------------------------------------------------------
(* Actions *)

\* The runtime calls lambda_handler(event, context).
Invoke(i) ==
    /\ pc[i] = "idle"
    /\ \E ev \in Events : event' = [event EXCEPT ![i] = ev]
    /\ pc' = [pc EXCEPT ![i] = "decode"]
    /\ UNCHANGED <<env, payload, config, message, conn, log, stages, exc, response>>

\* body = event.get('body', '{}'); data = json.loads(body); payload = get_payload(data)
Decode(i) ==
    /\ pc[i] = "decode"
    /\ stages' = [stages EXCEPT ![i] = Append(@, "decode")]
    /\ LET data == JsonLoads(EventBody(event[i]))
           got == IF data.err # NoExc THEN data ELSE get_payload(data.val)
       IN  IF got.err # NoExc
           THEN Raise(i, got.err) /\ UNCHANGED payload
           ELSE /\ payload' = [payload EXCEPT ![i] = got.val]
                /\ pc' = [pc EXCEPT ![i] = HandlerNext("decode")]
                /\ UNCHANGED exc
    /\ UNCHANGED <<env, event, config, message, conn, log, response>>

\* config = get_config_from_env()
ResolveConfig(i) ==
    /\ pc[i] = "config"
    /\ stages' = [stages EXCEPT ![i] = Append(@, "config")]
    /\ \E up \in BOOLEAN :
         LET got == get_config_from_env(env, payload[i], up)
         IN  IF got.err # NoExc
             THEN Raise(i, got.err) /\ UNCHANGED config
             ELSE /\ config' = [config EXCEPT ![i] = got.val]
                  /\ pc' = [pc EXCEPT ![i] = HandlerNext("config")]
                  /\ UNCHANGED exc
    /\ UNCHANGED <<env, event, payload, message, conn, log, response>>

\* message = make_message(payload, config)
Compose(i) ==
    /\ pc[i] = "compose"
    /\ stages' = [stages EXCEPT ![i] = Append(@, "compose")]
    /\ LET got == make_message(payload[i], config[i])
       IN  IF got.err # NoExc
           THEN Raise(i, got.err) /\ UNCHANGED message
           ELSE /\ message' = [message EXCEPT ![i] = got.val]
                /\ pc' = [pc EXCEPT ![i] = HandlerNext("compose")]
                /\ UNCHANGED exc
    /\ UNCHANGED <<env, event, payload, config, conn, log, response>>

\* send_message entered: smtplib.SMTP(host, port) connects; a failed connect
\* raises out of the constructor with no socket left open.
SmtpConnect(i) ==
    /\ pc[i] = "connect"
    /\ stages' = [stages EXCEPT ![i] = Append(@, "send")]
    /\ \E ok \in BOOLEAN :
         /\ log' = [log EXCEPT ![i] = Append(@, Call("connect", ok))]
         /\ IF ok
            THEN /\ conn' = [conn EXCEPT ![i] = "open"]
                 /\ pc' = [pc EXCEPT ![i] = SmtpNext("connect")]
                 /\ UNCHANGED exc
            ELSE Raise(i, "OSError") /\ UNCHANGED conn
    /\ UNCHANGED <<env, event, payload, config, message, response>>

\* One call on the open session; a failure leaves the block with the
\* exception in flight.
SmtpCall(i, step) ==
    /\ pc[i] = step
    /\ \E ok \in BOOLEAN :
         /\ log' = [log EXCEPT ![i] = Append(@, Call(step, ok))]
         /\ IF ok
            THEN pc' = [pc EXCEPT ![i] = SmtpNext(step)] /\ UNCHANGED exc
            ELSE /\ pc' = [pc EXCEPT ![i] = "exit"]
                 /\ exc' = [exc EXCEPT ![i] = "SMTPException"]
    /\ UNCHANGED <<env, event, payload, config, message, conn, stages, response>>

\* server.starttls()
SmtpStartTls(i) == SmtpCall(i, "starttls")

\* server.login(user, pass)
SmtpLogin(i) == SmtpCall(i, "login")

\* server.send_message(message)
SmtpTransmit(i) == SmtpCall(i, "transmit")

\* SMTP.__exit__: QUIT, then close() in a finally clause; the exception in
\* flight, or a refused QUIT, propagates out of send_message.
SmtpExit(i) ==
    /\ pc[i] = "exit"
    /\ conn' = [conn EXCEPT ![i] = ReleaseOnExit(exc[i])]
    /\ log' = [log EXCEPT ![i] = Append(@, Call("release", TRUE))]
    /\ \E quit \in {"accepted", "disconnected", "refused"} :
         IF exc[i] # NoExc \/ quit = "refused"
         THEN Raise(i, IF quit = "refused" THEN "SMTPResponseException" ELSE exc[i])
         ELSE pc' = [pc EXCEPT ![i] = HandlerNext("send")] /\ UNCHANGED exc
    /\ UNCHANGED <<env, event, payload, config, message, stages, response>>

\* return {'statusCode': 200, ...}
Respond(i) ==
    /\ pc[i] = "respond"
    /\ response' = [response EXCEPT ![i] = SuccessResponse]
    /\ pc' = [pc EXCEPT ![i] = "returned"]
    /\ UNCHANGED <<env, event, payload, config, message, conn, log, stages, exc>>

\* The runtime takes the result (or the exception); the handler's locals are
\* gone and the execution environment is free for the next invocation.
Finish(i) ==
    /\ pc[i] \in {"returned", "raised"}
    /\ pc' = [pc EXCEPT ![i] = "idle"]
    /\ event' = [event EXCEPT ![i] = None]
    /\ payload' = [payload EXCEPT ![i] = None]
    /\ config' = [config EXCEPT ![i] = None]
    /\ message' = [message EXCEPT ![i] = None]
    /\ conn' = [conn EXCEPT ![i] = IF @ = "open" THEN "open" ELSE "none"]
    /\ log' = [log EXCEPT ![i] = <<>>]
    /\ stages' = [stages EXCEPT ![i] = <<>>]
    /\ exc' = [exc EXCEPT ![i] = NoExc]
    /\ response' = [response EXCEPT ![i] = None]
    /\ UNCHANGED env

Next ==
    \E i \in Invocations :
        \/ Invoke(i)
        \/ Decode(i)
        \/ ResolveConfig(i)
        \/ Compose(i)
        \/ SmtpConnect(i)
        \/ SmtpStartTls(i)
        \/ SmtpLogin(i)
        \/ SmtpTransmit(i)
        \/ SmtpExit(i)
        \/ Respond(i)
        \/ Finish(i)

Spec == Init /\ [][Next]_vars

----------------------------------------------------------------------------
(* Composition alone: make_message applied to payloads of arbitrary text *)

Alphabet == {"x", "{", "}", "email", "simulation"}

\* The texts of n tokens.
Texts(n) == [1..n -> Alphabet]

ResolvedGoodConfig == get_config_from_env(GoodEnv, None, TRUE).val

InitCompose ==
    /\ env = GoodEnv
    /\ \E le, ld, ls \in 1..(MaxTotalLen - 2) :
       /\ le + ld + ls <= MaxTotalLen
       /\ \E e \in Texts(le), d \in Texts(ld), s \in Texts(ls) :
         /\ payload = [i \in Invocations |-> Payload(e, d, s)]
         /\ event = [i \in Invocations |->
                       [k \in {"body"} |-> JsonObject(Payload(e, d, s))]]
    /\ pc = [i \in Invocations |-> "compose"]
    /\ config = [i \in Invocations |-> ResolvedGoodConfig]
    /\ message = [i \in Invocations |-> None]
    /\ conn = [i \in Invocations |-> "none"]
    /\ log = [i \in Invocations |-> <<>>]
    /\ stages = [i \in Invocations |-> <<"decode", "config">>]
    /\ exc = [i \in Invocations |-> NoExc]
    /\ response = [i \in Invocations |-> None]

NextCompose == Compose("inv1")

SpecCompose == InitCompose /\ [][NextCompose]_vars

----------------------------------------------------------------------------
(* Vocabulary of the properties *)

Invoked(i) == pc[i] # "idle"

\* The decoded request body of an invocation.
Data(i) == JsonLoads(EventBody(event[i]))

IsObject(i) == Invoked(i) /\ Data(i).err = NoExc /\ Data(i).val.kind = "object"

LacksField(i) == IsObject(i) /\ ~(Keys \subseteq DOMAIN Data(i).val.members)

HasAllFields(i) == IsObject(i) /\ Keys \subseteq DOMAIN Data(i).val.members

Entered(i, stage) == \E k \in 1..Len(stages[i]) : stages[i][k] = stage

Ended(i) == pc[i] \in {"returned", "raised"}

Attempted(i, op) == \E k \in 1..Len(log[i]) : log[i][k].op = op

Succeeded(i, op) == \E k \in 1..Len(log[i]) : log[i][k].op = op /\ log[i][k].ok

Failed(i, op) == \E k \in 1..Len(log[i]) : log[i][k].op = op /\ ~log[i][k].ok

TransportFailed(i) == \E op \in {"connect", "starttls", "login", "transmit"} : Failed(i, op)

InSession(i) == pc[i] \in {"starttls", "login", "transmit", "exit"}

\* Every secret is present, is base64 text, and decrypts under this function's
\* key and encryption context.
Resolvable(e) ==
    /\ FunctionNameVar \in DOMAIN e
    /\ \A n \in SecretNames :
         /\ n \in DOMAIN e
         /\ e[n].b64ok
         /\ e[n].key = ServiceKey
         /\ e[n].ctx = e[FunctionNameVar]

IsPrefix(s, t) == Len(s) <= Len(t) /\ \A k \in 1..Len(s) : s[k] = t[k]

StageOrder == <<"decode", "config", "compose", "send">>
SmtpOrder == <<"connect", "starttls", "login", "transmit">>

----------------------------------------------------------------------------
(* Properties *)

\* C1: an invocation whose decoded body lacks one of email, description,
\* simulation (an event without body decodes to {}) ends in get_payload with a
\* KeyError; it composes no message and makes no SMTP call.
C1_MissingFieldStopsAtDecoder ==
    \A i \in Invocations :
        LacksField(i) =>
            /\ payload[i] = None /\ config[i] = None /\ message[i] = None
            /\ log[i] = <<>> /\ conn[i] = "none" /\ response[i] = None
            /\ pc[i] \in {"decode", "raised"}
            /\ pc[i] = "raised" => exc[i] = "KeyError" /\ stages[i] = <<"decode">>

C1_Witness ==
    \E i \in Invocations :
        /\ Invoked(i) /\ "body" \notin DOMAIN event[i]
        /\ pc[i] = "raised" /\ exc[i] = "KeyError"

\* C2: with all three fields in the body, a resolved configuration and an SMTP
\* session in which every call succeeded, the handler returns statusCode 200,
\* a Content-Type: application/json header and the body {"message": "Success"}.
C2_SuccessResponse ==
    \A i \in Invocations :
        /\ response[i] # None =>
              /\ pc[i] = "returned"
              /\ response[i].statusCode = 200
              /\ "Content-Type" \in DOMAIN response[i].headers
              /\ response[i].headers["Content-Type"] = "application/json"
              /\ response[i].body = "{\"message\": \"Success\"}"
        /\ ( /\ HasAllFields(i) /\ config[i] # None
             /\ \A op \in {"connect", "starttls", "login", "transmit", "release"} :
                    Succeeded(i, op)
             /\ exc[i] = NoExc /\ pc[i] # "respond" )
           => pc[i] = "returned" /\ response[i] # None

C2_Witness ==
    \E i \in Invocations :
        /\ pc[i] = "returned" /\ HasAllFields(i) /\ Succeeded(i, "transmit")
        /\ response[i] # None

\* C3 (as claimed): an invocation whose SMTP session failed at connect, TLS
\* upgrade, authentication or transmission ends with a statusCode 500 response.
C3_TransportFailureGives500 ==
    \A i \in Invocations :
        (Ended(i) /\ TransportFailed(i)) =>
            response[i] # None /\ response[i].statusCode = 500

\* C4: a connection acquired by send_message is open only inside the session
\* and is closed on every way out of it: normal completion, failed starttls,
\* failed login, failed transmission.
C4_ConnectionReleased ==
    \A i \in Invocations :
        /\ conn[i] = "open" => InSession(i) /\ Succeeded(i, "connect")
        /\ (Succeeded(i, "connect") /\ ~InSession(i)) =>
              conn[i] = "closed" /\ log[i][Len(log[i])].op = "release"

C4_Witness ==
    \E i, j \in Invocations :
        /\ pc[i] = "raised" /\ Failed(i, "login") /\ conn[i] = "closed"
        /\ pc[j] = "raised" /\ Failed(j, "transmit") /\ conn[j] = "closed"

\* C5: the SMTP calls of one send_message happen in the order connect,
\* starttls, login, transmit, release, each at most once; login only after a
\* successful starttls, transmit only after a successful login; the first
\* failure is followed by nothing but the release.
C5_SmtpStepOrder ==
    \A i \in Invocations :
        LET L == log[i]
            n == Len(L)
            calls == IF n > 0 /\ L[n].op = "release" THEN n - 1 ELSE n
        IN  /\ \A j, k \in 1..n : j < k => L[j].op # L[k].op
            /\ calls <= Len(SmtpOrder)
            /\ \A k \in 1..calls : L[k].op = SmtpOrder[k]
            /\ \A k \in 1..n : (k < calls) => L[k].ok
            /\ Attempted(i, "login") => Succeeded(i, "starttls")
            /\ Attempted(i, "transmit") => Succeeded(i, "login")
            /\ Attempted(i, "release") => Succeeded(i, "connect")
            /\ Failed(i, "connect") => n = 1
            /\ (calls > 0 /\ ~L[calls].ok) => pc[i] \in {"exit", "raised"}

C5_Witness ==
    \E i \in Invocations :
        /\ Succeeded(i, "starttls") /\ Failed(i, "login")
        /\ Attempted(i, "release") /\ Len(log[i]) = 4 /\ pc[i] = "raised"

C7_BodyIsTemplateWithFieldsVerbatim ==
    \A i \in Invocations :
        /\ pc[i] # "raised"
        /\ message[i] # None =>
              /\ Len(message[i].parts) = 1
              /\ message[i].parts[1].body =
                    <<Lit0>> \o payload[i].email \o <<Lit1>> \o payload[i].description
                    \o <<Lit2>> \o payload[i].simulation \o <<Lit3>>

C7_Witness ==
    /\ message["inv1"] # None
    /\ payload["inv1"].email = <<"{", "simulation", "}">>
    /\ payload["inv1"].description = <<"}">>

\* C8: the composed message has From = the resolved SMTP user, To = the
\* resolved DESTINATION, Subject = the fixed subject, and one text/plain part.
C8_EnvelopeMatchesConfig ==
    \A i \in Invocations :
        message[i] # None =>
            /\ config[i] # None
            /\ message[i].From = config[i].smtp_user
            /\ message[i].From = env["SMTP_USER"].pt
            /\ message[i].To = config[i].destination
            /\ message[i].To = env["DESTINATION"].pt
            /\ message[i].Subject = "MPS Help Request"
            /\ Len(message[i].parts) = 1
            /\ message[i].parts[1].type = "text/plain"

C8_Witness ==
    \E i \in Invocations :
        /\ message[i] # None /\ pc[i] = "connect"
        /\ message[i].To = "support@example.org"

\* C9: two resolutions from the same environment give the same Config, field
\* for field, whatever the two requests carried and however the other
\* invocation ended; a Config holds nothing but what the environment decrypts to.
C9_ConfigDependsOnEnvironmentOnly ==
    \A i, j \in Invocations :
        /\ (config[i] # None /\ config[j] # None) => config[i] = config[j]
        /\ config[i] # None =>
              /\ Resolvable(env)
              /\ config[i].smtp_host = env["SMTP_HOST"].pt
              /\ config[i].smtp_user = env["SMTP_USER"].pt
              /\ config[i].smtp_pass = env["SMTP_PASSWORD"].pt
              /\ config[i].destination = env["DESTINATION"].pt

C9_Witness ==
    /\ config["inv1"] # None /\ config["inv2"] # None
    /\ payload["inv1"].email # payload["inv2"].email
    /\ pc["inv1"] = "raised" /\ pc["inv2"] = "returned"

\* C10: the stages of an invocation are entered in the order decode, config,
\* compose, send, each at most once and only after the one before succeeded;
\* what reaches the transport is a complete message, the transport is called
\* at most once, and a response exists only after a successful send_message.
C10_StagesRunForward ==
    \A i \in Invocations :
        /\ IsPrefix(stages[i], StageOrder)
        /\ Entered(i, "config") => payload[i] # None
        /\ Entered(i, "compose") => config[i] # None
        /\ Entered(i, "send") =>
              /\ message[i] # None
              /\ Len(message[i].parts) = 1
        /\ log[i] # <<>> => Entered(i, "send")
        /\ \A j, k \in 1..Len(log[i]) :
              (log[i][j].op = "connect" /\ log[i][k].op = "connect") => j = k
        /\ (pc[i] \in {"respond", "returned"} \/ response[i] # None) =>
              /\ stages[i] = StageOrder
              /\ Succeeded(i, "transmit") /\ Succeeded(i, "release")
              /\ conn[i] = "closed" /\ exc[i] = NoExc

C10_Witness ==
    \E i, j \in Invocations :
        /\ pc[i] = "returned" /\ stages[i] = StageOrder /\ response[i] # None
        /\ pc[j] = "raised" /\ stages[j] = <<"decode", "config">>

=============================================================================
